---- MODULE Spec2Model ----
(***************************************************************************)
(* The donation backend (server.js): the donations and admin_users tables, *)
(* the payment processor's intents, the server-side sessions, and the      *)
(* request handlers, each cut into one step per await.  A slot holds one   *)
(* request from its arrival until the next request takes the slot, so the  *)
(* slots are the requests in flight at once.  SpecLedger runs the donation *)
(* handlers and SpecAdmin the account handlers over the same state;        *)
(* SpecClient runs the donation page (payment.js) in front of them.        *)
(***************************************************************************)
EXTENDS Integers, Sequences, FiniteSets, TLC

MaxIntents == 2      \* payment intents the processor issues in a run

Slots == {"a"}       \* one request at a time
Racers == {"a", "b"} \* two requests, or two click handlers, at a time
Sessions == {1, 2}   \* session cookies (browsers) that send admin requests

VARIABLES
  donations,        \* table donations: rows in insertion (id) order
  admin_users,      \* table admin_users: rows in insertion (id) order
  intents,          \* the processor: status of intent k at index k
  sessionUser,      \* session store: cookie -> logged-in user id, 0 for none
  webhookSecret,    \* STRIPE_WEBHOOK_SECRET is set
  pc,               \* slot -> where its handler stands
  req,              \* slot -> the request it handles
  loc,              \* slot -> the handler's local variables
  resp,             \* slot -> the response sent, status 0 while none is
  page              \* the donation page in the browser (payment.js)

vars == <<donations, admin_users, intents, sessionUser, webhookSecret, pc, req, loc,
          resp, page>>

--------------------------------------------------------------------------
(* JavaScript values of the request bodies *)

Undefined == "undefined"

\* donationAmount as it arrives: absent, a non-numeric string, or a number
\* of dollars given in thousandths (10000 is 10, 4 is 0.004)
AmountInputs ==
  {[t |-> "undefined", milli |-> 0], [t |-> "string", milli |-> 0]}
    \cup {[t |-> "number", milli |-> m] : m \in {0, -5000, 4, 10000}}

EmailInputs == {Undefined, "", "donor@example.org"}

\* !v for a string field of the body
FalsyStr(v) == v \in {Undefined, ""}

\* !donationAmount: undefined and 0 are falsy, a non-empty string is not
FalsyAmount(v) == v.t = "undefined" \/ (v.t = "number" /\ v.milli = 0)

\* isNaN(Math.round(Number(donationAmount) * 100))
AmountIsNaN(v) == v.t # "number"

\* JavaScript numbers are IEEE 754 doubles: a sign, 53 significant binary
\* digits m (most significant first, <<>> for zero) and an exponent e, the
\* value being m * 2^e. The digits are kept as a sequence, an integer of the
\* model having 32 bits only.
RECURSIVE BitsOf(_)
BitsOf(n) == IF n = 0 THEN <<>> ELSE Append(BitsOf(n \div 2), n % 2)

RECURSIVE NatOf(_)
NatOf(b) ==
  IF b = <<>> THEN 0 ELSE 2 * NatOf(SubSeq(b, 1, Len(b) - 1)) + b[Len(b)]

\* b + 1
RECURSIVE Succ(_)
Succ(b) ==
  IF b = <<>> THEN <<1>>
  ELSE IF b[Len(b)] = 0 THEN [b EXCEPT ![Len(b)] = 1]
  ELSE Append(Succ(SubSeq(b, 1, Len(b) - 1)), 0)

\* b * k + c for a small k
RECURSIVE MulSmall(_, _, _)
MulSmall(b, k, c) ==
  IF b = <<>> THEN BitsOf(c)
  ELSE LET t == b[Len(b)] * k + c
       IN IF t % 2 = 0
            THEN Append(MulSmall(SubSeq(b, 1, Len(b) - 1), k, t \div 2), 0)
            ELSE Append(MulSmall(SubSeq(b, 1, Len(b) - 1), k, t \div 2), 1)

\* long division by d: quotient digits b so far, remainder r, f digits after
\* the point so far; it stops at 54 significant digits
RECURSIVE DivBits(_, _, _, _)
DivBits(b, r, d, f) ==
  IF Len(b) >= 54 THEN [bits |-> b, rem |-> r, frac |-> f]
  ELSE LET bit == IF 2 * r >= d THEN 1 ELSE 0
       IN DivBits(IF b = <<>> /\ bit = 0 THEN b ELSE Append(b, bit),
                  2 * r - bit * d, d, f + 1)

\* round to nearest, ties to even: the 53 digits kept of b (54 digits or
\* more; sticky when digits below b are not all 0) and the digits dropped
RoundToDouble(b, sticky) ==
  LET keep == SubSeq(b, 1, 53)
      rest == sticky \/ \E j \in 55..Len(b) : b[j] = 1
      up == b[54] = 1 /\ (rest \/ keep[53] = 1)
      r == IF up THEN Succ(keep) ELSE keep
  IN IF Len(r) = 54 THEN [m |-> SubSeq(r, 1, 53), shift |-> Len(b) - 52]
     ELSE [m |-> r, shift |-> Len(b) - 53]

\* Number(donationAmount) for the decimal milli / 1000: the nearest double
Number(milli) ==
  LET a == IF milli < 0 THEN -milli ELSE milli
      q == DivBits(BitsOf(a \div 1000), a % 1000, 1000, 0)
      x == RoundToDouble(q.bits, q.rem # 0)
  IN IF milli = 0 THEN [neg |-> FALSE, m |-> <<>>, e |-> 0]
     ELSE [neg |-> milli < 0, m |-> x.m, e |-> x.shift - q.frac]

\* x * 100: the exact product rounded to a double
Times100(x) ==
  LET p == RoundToDouble(MulSmall(x.m, 100, 0), FALSE)
  IN IF x.m = <<>> THEN x ELSE [neg |-> x.neg, m |-> p.m, e |-> x.e + p.shift]

\* Math.round(x): the nearest integer, the upper one on a tie
MathRound(x) ==
  LET g == 0 - x.e
      whole == IF g > 53 THEN 0 ELSE NatOf(SubSeq(x.m, 1, 53 - g))
      half == g <= 53 /\ x.m[54 - g] = 1
      more == \E j \in (55 - g)..53 : j >= 1 /\ x.m[j] = 1
  IN IF x.m = <<>> THEN 0
     ELSE IF g <= 0 THEN (IF x.neg THEN -1 ELSE 1) * NatOf(x.m) * 2^(0 - g)
     ELSE IF x.neg THEN 0 - (whole + IF half /\ more THEN 1 ELSE 0)
     ELSE whole + IF half THEN 1 ELSE 0

\* the amounts the conversion is probed with beyond those of AmountInputs:
\* 0.005, 1.005, 1.045, 8.345 and 12.345 dollars
AmountProbes == {5, 1005, 1045, 8345, 12345}

\* Math.round(Number(donationAmount) * 100), computed once per amount
CentsTable ==
  [m \in {v.milli : v \in AmountInputs} \cup AmountProbes |->
     MathRound(Times100(Number(m)))]

AmountCents(v) == CentsTable[v.milli]

--------------------------------------------------------------------------
(* The payment processor *)

PStatus == {"requires_payment_method", "succeeded", "canceled"}

\* the status lifecycle of an intent at the processor
PNext(st) ==
  IF st = "requires_payment_method" THEN {"succeeded", "canceled"} ELSE {}

\* client_secret of intent k
ClientSecret(k) == k + 100

EventTypes == {"payment_intent.succeeded", "payment_intent.payment_failed"}

--------------------------------------------------------------------------
(* Responses *)

NoResp == [status |-> 0, body |-> "", clientSecret |-> 0, donations |-> <<>>]
Reply(code, text) == [NoResp EXCEPT !.status = code, !.body = text]

NoReq == [kind |-> "none", sid |-> 0, amount |-> [t |-> "undefined", milli |-> 0],
          email |-> Undefined, sigOk |-> FALSE, parseOk |-> FALSE,
          type |-> "", id |-> 0, username |-> Undefined, password |-> Undefined]

\* the handler's locals; caught holds what its catch blocks logged (0 for the
\* handler's own catch, i for row i of the admin list), and read, upstream and
\* reported hold for the admin list what the pass read, what the processor
\* held when the request arrived, and what each lookup returned
NoLoc == [authed |-> FALSE, cents |-> 0, pi |-> 0, list |-> <<>>, idx |-> 0,
          status |-> "", read |-> <<>>, upstream |-> <<>>, reported |-> <<>>,
          caught |-> {}]

Idle(s) == pc[s] \in {"idle", "done"}

\* a handler begins: the slot takes request r, local state l, and stands at p
Begin(s, r, l, p, out) ==
  /\ Idle(s)
  /\ req' = [req EXCEPT ![s] = r]
  /\ loc' = [loc EXCEPT ![s] = l]
  /\ pc' = [pc EXCEPT ![s] = p]
  /\ resp' = [resp EXCEPT ![s] = out]

\* the catch-all error handler's response to next(err)
InternalErrorMutant == Reply(200, "An internal server error occurred.")
InternalError == Reply(500, "An internal server error occurred.")

\* a handler ends with a response
Finish(s, out) ==
  /\ pc' = [pc EXCEPT ![s] = "done"]
  /\ resp' = [resp EXCEPT ![s] = out]

\* an await throws to the handler's catch: the error is logged and passed to
\* next(err)
Thrown(s) ==
  /\ loc' = [loc EXCEPT ![s].caught = {0}]
  /\ Finish(s, InternalError)

\* the donation page as it loads: no amount selected (line 5), the button
\* enabled, no error shown, no click handler running
NoPage ==
  [selected |-> 0, disabled |-> FALSE, fieldError |-> FALSE, globalError |-> "",
   redirected |-> FALSE, at |-> [h \in Racers |-> "idle"]]

Init ==
  /\ donations = <<>>
  /\ admin_users = <<>>
  /\ intents = <<>>
  /\ sessionUser = [c \in Sessions |-> 0]
  /\ webhookSecret \in BOOLEAN
  /\ page = NoPage
  /\ pc = [s \in Slots |-> "idle"]
  /\ req = [s \in Slots |-> NoReq]
  /\ loc = [s \in Slots |-> NoLoc]
  /\ resp = [s \in Slots |-> NoResp]

--------------------------------------------------------------------------
(* POST /create-payment-intent *)

\* the handler up to its first await: validation, then the call is issued
CreateValidateMutant(amt, em) ==
  IF FalsyAmount(amt) \/ FalsyStr(em)
    THEN "Donation amount and email are required."
  ELSE IF AmountIsNaN(amt) \/ AmountCents(amt) < 0
    THEN "Invalid donation amount."
  ELSE "ok"
CreateValidate(amt, em) ==
  IF FalsyAmount(amt) \/ FalsyStr(em)
    THEN "Donation amount and email are required."
  ELSE IF AmountIsNaN(amt) \/ AmountCents(amt) <= 0
    THEN "Invalid donation amount."
  ELSE "ok"

\* the request bodies tried: every amount with a good email, and every email
\* with a good amount
CreateInputs ==
  {<<amt, "donor@example.org">> : amt \in AmountInputs}
    \cup {<<[t |-> "number", milli |-> 10000], em>> : em \in EmailInputs}

\* the handler up to its first await, for a body of the set given
CreateStartFrom(s, inputs) ==
  \E in \in inputs :
    LET amt == in[1]
        em == in[2]
        r == [NoReq EXCEPT !.kind = "create", !.amount = amt, !.email = em]
        v == CreateValidate(amt, em)
    IN /\ IF v # "ok"
            THEN Begin(s, r, NoLoc, "done", Reply(400, v))
            ELSE Begin(s, r, [NoLoc EXCEPT !.cents = AmountCents(amt)],
                       "create_intent", NoResp)
       /\ UNCHANGED <<donations, admin_users, intents, sessionUser, webhookSecret>>

CreateStart(s) == CreateStartFrom(s, CreateInputs) /\ UNCHANGED page

\* await stripeInstance.paymentIntents.create(...): a new intent, or a throw
CreateIntent(s) ==
  /\ pc[s] = "create_intent"
  /\ \/ /\ Len(intents) < MaxIntents
        /\ intents' = Append(intents, "requires_payment_method")
        /\ loc' = [loc EXCEPT ![s].pi = Len(intents) + 1]
        /\ pc' = [pc EXCEPT ![s] = "create_insert"]
        /\ UNCHANGED resp
     \/ /\ Thrown(s)
        /\ UNCHANGED intents
  /\ UNCHANGED <<donations, admin_users, sessionUser, webhookSecret, page, req>>

\* the row of INSERT INTO donations (...), id by AUTOINCREMENT
NewDonationMutant(rows, cents, em, pi) ==
  [id |-> Len(rows) + 1, amount |-> cents, email |-> em, pi |-> pi, status |-> ""]
NewDonation(rows, cents, em, pi) ==
  [id |-> Len(rows) + 1, amount |-> cents, email |-> em, pi |-> pi,
   status |-> "pending"]

\* INSERT INTO donations: the table with the new row
InsertDonationMutant(rows, row) == <<row>>
InsertDonation(rows, row) == Append(rows, row)

\* the INSERT rejects: no row is written and the handler's catch takes over;
\* nothing is done about the intent
InsertFailsMutant(s) ==
  /\ Thrown(s)
  /\ donations' = InsertDonation(donations,
                    NewDonation(donations, loc[s].cents, req[s].email, loc[s].pi))
InsertFails(s) ==
  /\ Thrown(s)
  /\ UNCHANGED donations

\* await dbRun(INSERT ...), then res.json({clientSecret}); or the insert throws
CreateInsert(s) ==
  /\ pc[s] = "create_insert"
  /\ \/ /\ donations' = InsertDonation(donations,
                          NewDonation(donations, loc[s].cents, req[s].email, loc[s].pi))
        /\ Finish(s, [Reply(200, "clientSecret") EXCEPT
                        !.clientSecret = ClientSecret(loc[s].pi)])
        /\ UNCHANGED loc
     \/ InsertFails(s)
  /\ UNCHANGED <<admin_users, intents, sessionUser, webhookSecret, page, req>>

\* the processor moves an intent along its lifecycle (the donor pays, or not)
ProcessorAdvance ==
  /\ \E k \in 1..Len(intents) : \E st \in PNext(intents[k]) :
       intents' = [intents EXCEPT ![k] = st]
  /\ UNCHANGED <<donations, admin_users, sessionUser, webhookSecret, page, pc, req, loc, resp>>

--------------------------------------------------------------------------
(* POST /webhook *)

\* UPDATE donations SET payment_intent_status = st WHERE payment_intent_id = pi
UpdateByIntentMutant(rows, pi, st) ==
  [i \in 1..Len(rows) |-> [rows[i] EXCEPT !.status = st]]
UpdateByIntentUpsert(rows, pi, st) ==
  IF \E i \in 1..Len(rows) : rows[i].pi = pi
    THEN [i \in 1..Len(rows) |->
            IF rows[i].pi = pi THEN [rows[i] EXCEPT !.status = st] ELSE rows[i]]
    ELSE Append(rows, [id |-> Len(rows) + 1, amount |-> 0, email |-> "", pi |-> pi,
                       status |-> st])
UpdateByIntent(rows, pi, st) ==
  [i \in 1..Len(rows) |->
     IF rows[i].pi = pi THEN [rows[i] EXCEPT !.status = st] ELSE rows[i]]

\* the request passes constructEvent (a secret is set) or JSON.parse (none is)
WebhookAdmitsMutant(secret, r) == r.parseOk
WebhookAdmits(secret, r) == IF secret THEN r.sigOk ELSE r.parseOk

\* the requests tried, <<signature verifies, body parses, event type, intent
\* id>>: signed events, unsigned events, and a body that is no JSON
WebhookInputs ==
  {<<sig, TRUE, ty, k>> : sig \in BOOLEAN, ty \in EventTypes, k \in 1..MaxIntents}
    \cup {<<FALSE, FALSE, "", 0>>}

\* event.type === 'payment_intent.succeeded'
TriggersUpdateMutant(ty) == ty \in EventTypes
TriggersUpdate(ty) == ty = "payment_intent.succeeded"

\* the handler runs to its end in one turn: it verifies or parses, queues the
\* UPDATE for a succeeded event without awaiting it, and acknowledges
WebhookStart(s) ==
  \E in \in WebhookInputs :
    LET r == [NoReq EXCEPT !.kind = "webhook", !.sigOk = in[1], !.parseOk = in[2],
                           !.type = in[3], !.id = in[4]]
    IN /\ IF ~WebhookAdmits(webhookSecret, r)
            THEN Begin(s, r, NoLoc, "done", Reply(400, "Webhook Error"))
            ELSE Begin(s, r, [NoLoc EXCEPT !.pi = r.id],
                       IF TriggersUpdate(r.type) THEN "wh_update" ELSE "done",
                       Reply(200, "received"))
       /\ UNCHANGED <<donations, admin_users, intents, sessionUser, webhookSecret, page>>

\* the queued dbRun(UPDATE ...) runs (.then), or fails and is logged (.catch)
WebhookUpdate(s) ==
  /\ pc[s] = "wh_update"
  /\ \/ /\ donations' = UpdateByIntent(donations, loc[s].pi, "succeeded")
        /\ UNCHANGED loc
     \/ /\ UNCHANGED donations
        /\ loc' = [loc EXCEPT ![s].caught = {0}]
  /\ pc' = [pc EXCEPT ![s] = "done"]
  /\ UNCHANGED <<admin_users, intents, sessionUser, webhookSecret, page, req, resp>>

--------------------------------------------------------------------------
(* GET /admin-api/donations *)

RECURSIVE Reverse(_)
Reverse(q) == IF q = <<>> THEN <<>> ELSE Append(Reverse(Tail(q)), Head(q))

\* SELECT * FROM donations ORDER BY created_at DESC
SelectDonations(rows) == Reverse(rows)

\* UPDATE donations SET payment_intent_status = st WHERE id = id
UpdateByIdMutant(rows, id, st) == rows
UpdateByIdIfPending(rows, id, st) ==
  [i \in 1..Len(rows) |->
     IF rows[i].id = id /\ rows[i].status = "pending"
       THEN [rows[i] EXCEPT !.status = st] ELSE rows[i]]
UpdateById(rows, id, st) ==
  [i \in 1..Len(rows) |->
     IF rows[i].id = id THEN [rows[i] EXCEPT !.status = st] ELSE rows[i]]

\* the for loop runs on to the next row it awaits on: the first pending one
\* from position i, Len + 1 when there is none
RECURSIVE NextPending(_, _)
NextPending(list, i) ==
  IF i > Len(list) \/ list[i].status = "pending" THEN i
  ELSE NextPending(list, i + 1)

\* isAuthenticated: req.session.user, as the session store holds it when the
\* request arrives
IsAuthenticatedMutant(c) == TRUE
IsAuthenticated(c) == sessionUser[c] # 0

ListStart(s) ==
  \E c \in Sessions :
    LET r == [NoReq EXCEPT !.kind = "list", !.sid = c]
    IN /\ IF IsAuthenticated(c)
            THEN Begin(s, r, [NoLoc EXCEPT !.authed = TRUE, !.upstream = intents],
                       "list_read", NoResp)
            ELSE Begin(s, r, NoLoc, "done", Reply(401, "Unauthorized"))
       /\ UNCHANGED <<donations, admin_users, intents, sessionUser, webhookSecret, page>>

\* the loop goes on from position i with locals l: to the next await, or to
\* res.json({donations}) when no pending row is left
ListContinue(s, l, i) ==
  LET j == NextPending(l.list, i)
  IN /\ loc' = [loc EXCEPT ![s] = [l EXCEPT !.idx = j]]
     /\ IF j > Len(l.list)
          THEN Finish(s, [Reply(200, "donations") EXCEPT !.donations = l.list])
          ELSE /\ pc' = [pc EXCEPT ![s] = "list_retrieve"]
               /\ UNCHANGED resp

\* the inner catch: the error of row i is logged and the loop goes on
ListCaughtMutant(s, l, i) ==
  /\ loc' = [loc EXCEPT ![s] = [l EXCEPT !.caught = @ \cup {i}]]
  /\ Finish(s, InternalError)
ListCaught(s, l, i) ==
  ListContinue(s, [l EXCEPT !.caught = @ \cup {i}], i + 1)

\* await dbAll(SELECT ...): the rows, or a throw to the outer catch
ListRead(s) ==
  /\ pc[s] = "list_read"
  /\ \/ LET rows == SelectDonations(donations)
        IN ListContinue(s, [loc[s] EXCEPT !.list = rows, !.read = rows,
                                          !.reported = [i \in 1..Len(rows) |-> ""]], 1)
     \/ Thrown(s)
  /\ UNCHANGED <<donations, admin_users, intents, sessionUser, webhookSecret, page, req>>

\* await stripeInstance.paymentIntents.retrieve(id): the intent's status, or a
\* throw to the inner catch
ListRetrieve(s) ==
  /\ pc[s] = "list_retrieve"
  /\ LET l == loc[s]
         i == l.idx
         st == intents[l.list[i].pi]
         m == [l EXCEPT !.reported[i] = st]
     IN \/ /\ st # l.list[i].status
           /\ loc' = [loc EXCEPT ![s] = [m EXCEPT !.status = st]]
           /\ pc' = [pc EXCEPT ![s] = "list_update"]
           /\ UNCHANGED resp
        \/ /\ st = l.list[i].status
           /\ ListContinue(s, m, i + 1)
        \/ ListCaught(s, [l EXCEPT !.reported[i] = "error"], i)
  /\ UNCHANGED <<donations, admin_users, intents, sessionUser, webhookSecret, page, req>>

\* await dbRun(UPDATE ... WHERE id = ?), then the row in the result is set; or
\* the update throws to the inner catch
ListUpdate(s) ==
  /\ pc[s] = "list_update"
  /\ LET l == loc[s]
         i == l.idx
     IN \/ /\ donations' = UpdateById(donations, l.list[i].id, l.status)
           /\ ListContinue(s, [l EXCEPT !.list[i].status = l.status], i + 1)
        \/ /\ UNCHANGED donations
           /\ ListCaught(s, l, i)
  /\ UNCHANGED <<admin_users, intents, sessionUser, webhookSecret, page, req>>

--------------------------------------------------------------------------
(* Admin accounts and sessions *)

\* bcrypt.hash(password, 10) and bcrypt.compare(password, hash)
Hash(pw) == <<"bcrypt", pw>>
BcryptCompare(pw, h) == h = Hash(pw)

\* the {username, password} bodies tried
AdminInputs ==
  {<<Undefined, "pw1">>, <<"admin", Undefined>>, <<"admin", "pw1">>,
   <<"admin", "pw2">>, <<"root", "pw1">>}

\* SELECT * FROM admin_users WHERE username = ?: the rows found
UsersNamed(rows, name) == {i \in 1..Len(rows) : rows[i].username = name}

\* await bcrypt.hash, await dbRun(INSERT INTO admin_users ...), res.json; the
\* insert throws when the username is taken (UNIQUE) or the store fails
InsertUser(s, msg) ==
  \/ /\ UsersNamed(admin_users, req[s].username) = {}
     /\ admin_users' = Append(admin_users,
                         [id |-> Len(admin_users) + 1, username |-> req[s].username,
                          password |-> Hash(req[s].password)])
     /\ Finish(s, Reply(200, msg))
     /\ UNCHANGED loc
  \/ /\ Thrown(s)
     /\ UNCHANGED admin_users

\* POST /admin-api/register, to its first await
RegisterStart(s) ==
  \E c \in Sessions, in \in AdminInputs :
    LET r == [NoReq EXCEPT !.kind = "register", !.sid = c, !.username = in[1],
                           !.password = in[2]]
    IN /\ IF FalsyStr(in[1]) \/ FalsyStr(in[2])
            THEN Begin(s, r, NoLoc, "done",
                       Reply(400, "Username and password are required."))
            ELSE Begin(s, r, [NoLoc EXCEPT !.authed = IsAuthenticated(c)],
                       "reg_count", NoResp)
       /\ UNCHANGED <<donations, admin_users, intents, sessionUser, webhookSecret, page>>

\* isFirstUser || (req.session && req.session.user)
RegisterAdmitsMutant(count, authed) == count <= 1 \/ authed
RegisterAdmits(count, authed) == count = 0 \/ authed

\* await dbGet(SELECT COUNT(*) ...), then the bootstrap rule
RegisterCount(s) ==
  /\ pc[s] = "reg_count"
  /\ \/ /\ IF RegisterAdmits(Len(admin_users), loc[s].authed)
             THEN /\ pc' = [pc EXCEPT ![s] = "reg_insert"]
                  /\ UNCHANGED resp
             ELSE Finish(s, Reply(401,
                    "Unauthorized. Please log in as admin to add new users."))
        /\ UNCHANGED loc
     \/ Thrown(s)
  /\ UNCHANGED <<donations, admin_users, intents, sessionUser, webhookSecret, page, req>>

RegisterInsert(s) ==
  /\ pc[s] = "reg_insert"
  /\ InsertUser(s, "Admin user registered successfully.")
  /\ UNCHANGED <<donations, intents, sessionUser, webhookSecret, page, req>>

\* POST /admin-api/login, to its first await
LoginStart(s) ==
  \E c \in Sessions, in \in AdminInputs :
    LET r == [NoReq EXCEPT !.kind = "login", !.sid = c, !.username = in[1],
                           !.password = in[2]]
    IN /\ IF FalsyStr(in[1]) \/ FalsyStr(in[2])
            THEN Begin(s, r, NoLoc, "done",
                       Reply(400, "Username and password are required."))
            ELSE Begin(s, r, NoLoc, "login_get", NoResp)
       /\ UNCHANGED <<donations, admin_users, intents, sessionUser, webhookSecret, page>>

\* the answer when dbGet finds no row of that username
NoSuchUser == Reply(401, "Invalid credentials.")

\* the answer when bcrypt.compare does not match
WrongPasswordMutant == Reply(401, "Wrong password.")
WrongPassword == Reply(401, "Invalid credentials.")

\* await dbGet(SELECT ... WHERE username = ?), await bcrypt.compare, and the
\* session is set on a match
LoginGet(s) ==
  /\ pc[s] = "login_get"
  /\ \/ LET found == UsersNamed(admin_users, req[s].username)
        IN /\ IF found = {}
                THEN /\ Finish(s, NoSuchUser)
                     /\ UNCHANGED sessionUser
              ELSE IF \E i \in found :
                        BcryptCompare(req[s].password, admin_users[i].password)
                THEN /\ sessionUser' = [sessionUser EXCEPT ![req[s].sid] =
                                          admin_users[CHOOSE i \in found : TRUE].id]
                     /\ Finish(s, Reply(200, "Login successful."))
                ELSE /\ Finish(s, WrongPassword)
                     /\ UNCHANGED sessionUser
           /\ UNCHANGED loc
     \/ /\ Thrown(s)
        /\ UNCHANGED sessionUser
  /\ UNCHANGED <<donations, admin_users, intents, webhookSecret, page, req>>

\* POST /admin-api/logout: req.session.destroy is called
LogoutStart(s) ==
  \E c \in Sessions :
    /\ Begin(s, [NoReq EXCEPT !.kind = "logout", !.sid = c], NoLoc,
             "logout_destroy", NoResp)
    /\ UNCHANGED <<donations, admin_users, intents, sessionUser, webhookSecret, page>>

\* the destroy callback: the session is gone, or err goes to next(err)
LogoutDestroy(s) ==
  /\ pc[s] = "logout_destroy"
  /\ \/ /\ sessionUser' = [sessionUser EXCEPT ![req[s].sid] = 0]
        /\ Finish(s, Reply(200, "Logged out."))
        /\ UNCHANGED loc
     \/ /\ Thrown(s)
        /\ UNCHANGED sessionUser
  /\ UNCHANGED <<donations, admin_users, intents, webhookSecret, page, req>>

\* POST /admin-api/users, to its first await: isAuthenticated, then the body
UsersStart(s) ==
  \E c \in Sessions, in \in AdminInputs :
    LET r == [NoReq EXCEPT !.kind = "users", !.sid = c, !.username = in[1],
                           !.password = in[2]]
    IN /\ IF ~IsAuthenticated(c)
            THEN Begin(s, r, NoLoc, "done", Reply(401, "Unauthorized"))
          ELSE IF FalsyStr(in[1]) \/ FalsyStr(in[2])
            THEN Begin(s, r, [NoLoc EXCEPT !.authed = TRUE], "done",
                       Reply(400, "Username and password are required."))
            ELSE Begin(s, r, [NoLoc EXCEPT !.authed = TRUE], "users_insert", NoResp)
       /\ UNCHANGED <<donations, admin_users, intents, sessionUser, webhookSecret, page>>

UsersInsert(s) ==
  /\ pc[s] = "users_insert"
  /\ InsertUser(s, "New admin user added successfully.")
  /\ UNCHANGED <<donations, intents, sessionUser, webhookSecret, page, req>>

--------------------------------------------------------------------------
(* The ledger: donations, webhooks and the admin list, one request at a    *)
(* time, with an admin registered and logged in on session 1 from the      *)
(* start (the state after a first register and login).                     *)

InitLedger ==
  /\ donations = <<>>
  /\ admin_users = <<[id |-> 1, username |-> "admin", password |-> Hash("pw1")]>>
  /\ intents = <<>>
  /\ sessionUser = [c \in Sessions |-> IF c = 1 THEN 1 ELSE 0]
  /\ webhookSecret \in BOOLEAN
  /\ page = NoPage
  /\ pc = [s \in Slots |-> "idle"]
  /\ req = [s \in Slots |-> NoReq]
  /\ loc = [s \in Slots |-> NoLoc]
  /\ resp = [s \in Slots |-> NoResp]

NextLedger ==
  \/ \E s \in Slots :
       \/ CreateStart(s) \/ CreateIntent(s) \/ CreateInsert(s)
       \/ WebhookStart(s) \/ WebhookUpdate(s)
       \/ ListStart(s) \/ ListRead(s) \/ ListRetrieve(s) \/ ListUpdate(s)
  \/ ProcessorAdvance

SpecLedger == InitLedger /\ [][NextLedger]_vars
--------------------------------------------------------------------------
(* The admin accounts: registration, login, logout and added users, one    *)
(* request at a time, from the empty tables of a first start.              *)

NextAdmin ==
  \E s \in Slots :
    \/ RegisterStart(s) \/ RegisterCount(s) \/ RegisterInsert(s)
    \/ LoginStart(s) \/ LoginGet(s)
    \/ LogoutStart(s) \/ LogoutDestroy(s)
    \/ UsersStart(s) \/ UsersInsert(s)

SpecAdmin == Init /\ [][NextAdmin]_vars

--------------------------------------------------------------------------
(* Two register requests in flight at once: they interleave at their       *)
(* awaits, from the empty tables.                                          *)

InitRegisterRace ==
  /\ donations = <<>>
  /\ admin_users = <<>>
  /\ intents = <<>>
  /\ sessionUser = [c \in Sessions |-> 0]
  /\ webhookSecret = FALSE
  /\ page = NoPage
  /\ pc = [s \in Racers |-> "idle"]
  /\ req = [s \in Racers |-> NoReq]
  /\ loc = [s \in Racers |-> NoLoc]
  /\ resp = [s \in Racers |-> NoResp]

NextRegisterRace ==
  \E s \in Racers :
    \/ RegisterStart(s) \/ RegisterCount(s) \/ RegisterInsert(s)

SpecRegisterRace == InitRegisterRace /\ [][NextRegisterRace]_vars

--------------------------------------------------------------------------
(* Sessions and the endpoints they open: the admin requests and the admin  *)
(* list, one request at a time, from a store that holds one pending        *)
(* donation and no account.                                                *)

InitSession ==
  /\ donations = <<NewDonation(<<>>, 1000, "a@b.c", 1)>>
  /\ admin_users = <<>>
  /\ intents = <<"requires_payment_method">>
  /\ sessionUser = [c \in Sessions |-> 0]
  /\ webhookSecret = FALSE
  /\ page = NoPage
  /\ pc = [s \in Slots |-> "idle"]
  /\ req = [s \in Slots |-> NoReq]
  /\ loc = [s \in Slots |-> NoLoc]
  /\ resp = [s \in Slots |-> NoResp]

NextSession ==
  \/ \E s \in Slots :
       \/ RegisterStart(s) \/ RegisterCount(s) \/ RegisterInsert(s)
       \/ LoginStart(s) \/ LoginGet(s)
       \/ LogoutStart(s) \/ LogoutDestroy(s)
       \/ UsersStart(s) \/ UsersInsert(s)
       \/ ListStart(s) \/ ListRead(s) \/ ListRetrieve(s) \/ ListUpdate(s)
  \/ ProcessorAdvance

SpecSession == InitSession /\ [][NextSession]_vars

--------------------------------------------------------------------------
(* The amount conversion: donations of amounts that lie on and off half a  *)
(* cent, one request at a time.                                            *)

ProbeInputs ==
  {<<[t |-> "number", milli |-> m], "donor@example.org">> :
     m \in AmountProbes \cup {10000}}

CreateProbe(s) == CreateStartFrom(s, ProbeInputs) /\ UNCHANGED page

NextAmount ==
  \E s \in Slots : CreateProbe(s) \/ CreateIntent(s) \/ CreateInsert(s)

SpecAmount == InitLedger /\ [][NextAmount]_vars

--------------------------------------------------------------------------
(* Webhooks and admin list passes in flight at once, two requests          *)
(* interleaving at their awaits, over a store that holds one pending       *)
(* donation, with an admin logged in on session 1.                         *)

InitRace ==
  /\ donations = <<NewDonation(<<>>, 1000, "donor@example.org", 1)>>
  /\ admin_users = <<[id |-> 1, username |-> "admin", password |-> Hash("pw1")]>>
  /\ intents = <<"requires_payment_method">>
  /\ sessionUser = [c \in Sessions |-> IF c = 1 THEN 1 ELSE 0]
  /\ webhookSecret = FALSE
  /\ page = NoPage
  /\ pc = [s \in Racers |-> "idle"]
  /\ req = [s \in Racers |-> NoReq]
  /\ loc = [s \in Racers |-> NoLoc]
  /\ resp = [s \in Racers |-> NoResp]

NextRace ==
  \/ \E s \in Racers :
       \/ WebhookStart(s) \/ WebhookUpdate(s)
       \/ ListStart(s) \/ ListRead(s) \/ ListRetrieve(s) \/ ListUpdate(s)
  \/ ProcessorAdvance

SpecRace == InitRace /\ [][NextRace]_vars

--------------------------------------------------------------------------
(* The donation page (payment.js): the donate button's click handler, cut  *)
(* at its awaits, with the server's create handler behind its fetch.       *)
(* Click handler h sends its request in slot h; two handlers can be in     *)
(* flight.                                                                 *)

\* selectedDonation after a donationSelected event: parseInt of the amount,
\* 0 for an invalid one
Selections == {0, 10}

\* the body of the fetch: selectedDonation and the email field
FetchBody(sel) == <<[t |-> "number", milli |-> sel * 1000], "donor@example.org">>

ShowGlobalError(p, msg) == [p EXCEPT !.globalError = msg]
ClearGlobalError(p) == [p EXCEPT !.globalError = ""]
ShowLoadingState(p) == [p EXCEPT !.disabled = TRUE]
HideLoadingState(p) == [p EXCEPT !.disabled = FALSE]

\* click handler h stands at w
At(p, h, w) == [p EXCEPT !.at[h] = w]

\* the donationSelected listener
DonationSelected ==
  /\ ~page.redirected
  /\ \E a \in Selections \ {page.selected} : page' = [page EXCEPT !.selected = a]
  /\ UNCHANGED <<donations, admin_users, intents, sessionUser, webhookSecret,
                 pc, req, loc, resp>>

\* the page's form validation shows or clears a field's .error-message.active
FieldValidation ==
  /\ ~page.redirected
  /\ page' = [page EXCEPT !.fieldError = ~@]
  /\ UNCHANGED <<donations, admin_users, intents, sessionUser, webhookSecret,
                 pc, req, loc, resp>>

\* a click on the button, which gets none while disabled: the handler runs
\* to its return for no amount, or to await setTimeout(100)
Click(h) ==
  /\ page.at[h] \in {"idle", "done"}
  /\ ~page.disabled /\ ~page.redirected
  /\ page' = IF page.selected <= 0
               THEN At(ShowGlobalError(ClearGlobalError(page),
                         "Please select a donation amount first."), h, "done")
               ELSE At(ClearGlobalError(page), h, "tick")
  /\ UNCHANGED <<donations, admin_users, intents, sessionUser, webhookSecret,
                 pc, req, loc, resp>>

\* after the 100 ms: anyFieldHasError ends the handler; else showLoadingState
\* and the fetch, whose request the server's handler takes up
AfterTick(h) ==
  /\ page.at[h] = "tick" /\ ~page.redirected
  /\ IF page.fieldError
       THEN /\ page' = At(ShowGlobalError(page,
                            "Please fix the form errors before continuing."), h, "done")
            /\ UNCHANGED <<donations, admin_users, intents, sessionUser, webhookSecret,
                           pc, req, loc, resp>>
       ELSE /\ page' = At(ShowLoadingState(page), h, "fetch")
            /\ CreateStartFrom(h, {FetchBody(page.selected)})

\* the fetch settles: a client secret, or the catch (the response is not ok or
\* has no secret, or the fetch rejects): hideLoadingState and an error
FetchSettles(h) ==
  /\ page.at[h] = "fetch" /\ pc[h] = "done" /\ ~page.redirected
  /\ \/ /\ resp[h].status = 200 /\ resp[h].clientSecret # 0
        /\ page' = At(page, h, "confirm")
     \/ page' = At(ShowGlobalError(HideLoadingState(page),
                     "Error creating PaymentIntent"), h, "done")
  /\ UNCHANGED <<donations, admin_users, intents, sessionUser, webhookSecret,
                 pc, req, loc, resp>>

\* stripe.confirmCardPayment settles: the intent succeeded, then the receipt
\* cookie and the redirect; or the catch: hideLoadingState and an error
ConfirmSettles(h) ==
  /\ page.at[h] = "confirm" /\ ~page.redirected
  /\ \/ LET k == resp[h].clientSecret - 100
        IN /\ "succeeded" \in PNext(intents[k])
           /\ intents' = [intents EXCEPT ![k] = "succeeded"]
           /\ page' = At([page EXCEPT !.redirected = TRUE], h, "done")
     \/ /\ page' = At(ShowGlobalError(HideLoadingState(page), "Payment error"), h, "done")
        /\ UNCHANGED intents
  /\ UNCHANGED <<donations, admin_users, sessionUser, webhookSecret, pc, req, loc, resp>>

InitClient ==
  /\ donations = <<>>
  /\ admin_users = <<>>
  /\ intents = <<>>
  /\ sessionUser = [c \in Sessions |-> 0]
  /\ webhookSecret = FALSE
  /\ page = NoPage
  /\ pc = [s \in Racers |-> "idle"]
  /\ req = [s \in Racers |-> NoReq]
  /\ loc = [s \in Racers |-> NoLoc]
  /\ resp = [s \in Racers |-> NoResp]

NextClient ==
  \/ DonationSelected
  \/ FieldValidation
  \/ \E h \in Racers :
       \/ Click(h) \/ AfterTick(h) \/ FetchSettles(h) \/ ConfirmSettles(h)
       \/ CreateIntent(h) \/ CreateInsert(h)

SpecClient == InitClient /\ [][NextClient]_vars

--------------------------------------------------------------------------
(* The claims *)

\* the step is one of the request in slot s
Acts(s) == <<pc[s], req[s], loc[s], resp[s]>> # <<pc'[s], req'[s], loc'[s], resp'[s]>>

\* the donations row with the given id
Row(id) == donations[CHOOSE i \in 1..Len(donations) : donations[i].id = id]

\* a create-payment-intent body the claim C1 calls invalid
InvalidCreate(r) ==
  /\ r.kind = "create"
  /\ \/ r.amount.t = "undefined"
     \/ r.amount.t = "string"
     \/ r.amount.t = "number" /\ AmountCents(r.amount) <= 0
     \/ r.email = Undefined
     \/ r.email = ""

\* C1: a create-payment-intent request whose donationAmount is missing,
\* non-numeric or converts to an amount of cents <= 0, or whose email is missing
\* or empty, ends at once with 400; its step creates no intent at the processor
\* and writes no donation row.
C1_InvalidRejected ==
  [][\A s \in Slots :
       (Acts(s) /\ InvalidCreate(req'[s])) =>
         /\ pc'[s] = "done"
         /\ resp'[s].status = 400
         /\ intents' = intents
         /\ donations' = donations]_vars

\* C1 witness: 0.004 dollars, which rounds to 0 cents, was rejected while the
\* table holds a row
C1_Witness ==
  \E s \in Slots :
    /\ InvalidCreate(req[s]) /\ req[s].amount = [t |-> "number", milli |-> 4]
    /\ pc[s] = "done" /\ resp[s].status = 400
    /\ Len(donations) = 1

\* C2: every step of a create-payment-intent request leaves the donations
\* table alone, except the step that ends it with success: that one appends
\* exactly one row, with status pending and the intent id the processor
\* returned to this request (not empty), changes no other row, and answers
\* with that intent's client secret (not empty); no two rows then share an
\* intent id.
C2_OneRecord ==
  [][\A s \in Slots :
       (Acts(s) /\ req'[s].kind = "create") =>
         IF resp'[s].status = 200
           THEN /\ Len(donations') = Len(donations) + 1
                /\ SubSeq(donations', 1, Len(donations)) = donations
                /\ LET d == donations'[Len(donations')]
                   IN /\ d.status = "pending"
                      /\ d.pi = loc[s].pi
                      /\ d.pi \in 1..Len(intents)
                      /\ resp'[s].clientSecret = ClientSecret(d.pi)
                      /\ resp'[s].clientSecret # 0
                /\ \A i, j \in 1..Len(donations') :
                     i # j => donations'[i].pi # donations'[j].pi
           ELSE donations' = donations]_vars

\* C2 witness: a second successful creation
C2_Witness ==
  \E s \in Slots :
    /\ req[s].kind = "create" /\ pc[s] = "done" /\ resp[s].status = 200
    /\ Len(donations) = 2
    /\ donations[2].pi = loc[s].pi

\* C3: when the processor's create call throws, the request ends with 500, and
\* no step of a request that got no intent changes the donations table.
C3_IntentFailure ==
  [][\A s \in Slots :
       /\ (pc[s] = "create_intent" /\ pc'[s] = "done") =>
            (resp'[s].status = 500 /\ resp'[s].clientSecret = 0)
       /\ (Acts(s) /\ req'[s].kind = "create" /\ loc'[s].pi = 0) =>
            donations' = donations]_vars

\* C3 witness: a creation failed at the processor while the table holds a row
C3_Witness ==
  \E s \in Slots :
    /\ req[s].kind = "create" /\ ~InvalidCreate(req[s])
    /\ pc[s] = "done" /\ loc[s].pi = 0 /\ loc[s].caught = {0}
    /\ resp[s].status = 500
    /\ Len(donations) = 1

\* a webhook request whose payload became an event
HasEvent(r) ==
  r.kind = "webhook" /\ ((webhookSecret /\ r.sigOk) \/ (~webhookSecret /\ r.parseOk))

\* the rows the event of request r names
Matching(r) == {i \in 1..Len(donations) : donations[i].pi = r.id}

\* C4: when the UPDATE of a payment_intent.succeeded event runs and the event's
\* intent id is that of a stored row, that row's status becomes succeeded,
\* whatever it was; every row of another intent id and every other field of
\* every row stay as they were.
C4_WebhookApplied ==
  [][\A s \in Slots :
       (pc[s] = "wh_update" /\ pc'[s] = "done" /\ loc'[s].caught = {}
          /\ Matching(req[s]) # {}) =>
         /\ req[s].type = "payment_intent.succeeded"
         /\ Len(donations') = Len(donations)
         /\ \A i \in 1..Len(donations) :
              /\ i \in Matching(req[s]) => donations'[i].status = "succeeded"
              /\ i \notin Matching(req[s]) => donations'[i] = donations[i]
              /\ [donations'[i] EXCEPT !.status = ""] = [donations[i] EXCEPT !.status = ""]]_vars

\* C4 witness: the event set to succeeded a row whose intent the processor
\* holds canceled, and the other row is still pending
C4_Witness ==
  \E s \in Slots :
    /\ req[s].kind = "webhook" /\ req[s].type = "payment_intent.succeeded"
    /\ pc[s] = "done" /\ loc[s].caught = {} /\ resp[s].status = 200
    /\ \E i, j \in 1..Len(donations) :
         /\ donations[i].pi = req[s].id /\ donations[i].status = "succeeded"
         /\ intents[donations[i].pi] = "canceled"
         /\ donations[j].pi # req[s].id /\ donations[j].status = "pending"

\* C5: a webhook event whose intent id is that of no stored row changes and
\* creates no row, in the step that receives it and in the step that runs its
\* UPDATE, and is answered 200 {received: true}.
C5_UnknownIntent ==
  [][\A s \in Slots :
       (Acts(s) /\ HasEvent(req'[s])
          /\ \A i \in 1..Len(donations) : donations[i].pi # req'[s].id) =>
         /\ donations' = donations
         /\ resp'[s] = Reply(200, "received")]_vars

\* C5 witness: the UPDATE of a succeeded event for an intent without a row has
\* run, the table holding a row of another intent
C5_Witness ==
  \E s \in Slots :
    /\ HasEvent(req[s]) /\ req[s].type = "payment_intent.succeeded"
    /\ pc[s] = "done" /\ loc[s].caught = {}
    /\ resp[s] = Reply(200, "received")
    /\ Len(donations) = 1 /\ donations[1].pi # req[s].id
    /\ donations[1].status = "pending"

\* C6: with a webhook secret set, a request whose signature does not verify
\* ends at once with 400 and changes no row, whatever its payload; and a
\* request without a good signature is acknowledged only when no secret is set.
C6_BadSignature ==
  [][\A s \in Slots :
       /\ (Acts(s) /\ req'[s].kind = "webhook" /\ webhookSecret /\ ~req'[s].sigOk) =>
            /\ pc'[s] = "done"
            /\ resp'[s].status = 400
            /\ donations' = donations
       /\ (Acts(s) /\ req'[s].kind = "webhook" /\ ~req'[s].sigOk
             /\ resp'[s].status = 200) => ~webhookSecret]_vars

\* C6 witness: with a secret set, a well-formed succeeded event for a pending
\* row, but with a bad signature, was answered 400 and the row is pending
C6_Witness ==
  \E s \in Slots :
    /\ webhookSecret
    /\ req[s].kind = "webhook" /\ ~req[s].sigOk /\ req[s].parseOk
    /\ req[s].type = "payment_intent.succeeded"
    /\ pc[s] = "done" /\ resp[s].status = 400
    /\ \E i \in 1..Len(donations) :
         donations[i].pi = req[s].id /\ donations[i].status = "pending"

\* an admin list request that got its rows and has answered
ListDone(s) == req[s].kind = "list" /\ pc[s] = "done" /\ resp[s].status = 200

\* C7: when an admin list pass, alone in flight, has returned: every row that
\* was pending when the list was read, whose lookup the processor answered with
\* another status and whose iteration logged no error, holds the processor's
\* status in the store and in the returned list; every row that was not pending
\* when the list was read was not looked up and holds in the store and in the
\* returned list the status it had.
C7_Reconciled ==
  \A s \in Slots :
    ListDone(s) =>
      LET l == loc[s]
          out == resp[s].donations
      IN /\ Len(out) = Len(l.read)
         /\ \A i \in 1..Len(l.read) :
              /\ (l.read[i].status = "pending" /\ i \notin l.caught
                    /\ l.reported[i] \in PStatus /\ l.reported[i] # "pending") =>
                   /\ Row(l.read[i].id).status = l.reported[i]
                   /\ out[i].status = l.reported[i]
              /\ l.read[i].status # "pending" =>
                   /\ l.reported[i] = ""
                   /\ Row(l.read[i].id).status = l.read[i].status
                   /\ out[i].status = l.read[i].status

\* C7 witness: of two rows read, one was not pending and kept its status, the
\* other was pending and now holds the succeeded the processor reported
C7_Witness ==
  \E s \in Slots :
    /\ ListDone(s) /\ loc[s].caught = {}
    /\ \E i, j \in 1..Len(loc[s].read) :
         /\ loc[s].read[i].status = "pending" /\ loc[s].reported[i] = "succeeded"
         /\ Row(loc[s].read[i].id).status = "succeeded"
         /\ resp[s].donations[i].status = "succeeded"
         /\ loc[s].read[j].status = "canceled"
         /\ Row(loc[s].read[j].id).status = "canceled"

\* C8: in an admin list pass, a lookup or a store update that fails for a
\* pending row leaves that row pending in the store and in the result; the pass
\* still looks up every other pending row and reconciles those that do not
\* fail, and it answers 200 with every row it read.
C8_Tolerant ==
  \A s \in Slots :
    (req[s].kind = "list" /\ loc[s].caught # {} /\ loc[s].read # <<>>) =>
      LET l == loc[s]
      IN /\ \A i \in l.caught :
              /\ i \in 1..Len(l.read)
              /\ l.read[i].status = "pending"
              /\ l.list[i].status = "pending"
              /\ Row(l.read[i].id).status = "pending"
         /\ pc[s] = "done" =>
              /\ resp[s].status = 200
              /\ Len(resp[s].donations) = Len(l.read)
              /\ \A i \in 1..Len(l.read) :
                   /\ resp[s].donations[i].id = l.read[i].id
                   /\ l.read[i].status = "pending" => l.reported[i] # ""
                   /\ (l.read[i].status = "pending" /\ i \notin l.caught) =>
                        /\ Row(l.read[i].id).status = l.reported[i]
                        /\ resp[s].donations[i].status = l.reported[i]

\* C8 witness: the first pending row's iteration failed and the second pending
\* row was reconciled after it
C8_Witness ==
  \E s \in Slots :
    /\ ListDone(s) /\ loc[s].caught = {1}
    /\ Len(loc[s].read) = 2
    /\ loc[s].read[2].status = "pending"
    /\ loc[s].reported[2] = "succeeded"
    /\ Row(loc[s].read[2].id).status = "succeeded"
    /\ Row(loc[s].read[1].id).status = "pending"

\* C9: an admin list pass that starts after the processor has turned a row's
\* intent to succeeded, and whose lookups and updates do not fail, ends with
\* that row succeeded in the store, whatever passes ran before.
C9_Compensates ==
  \A s \in Slots :
    (ListDone(s) /\ loc[s].caught = {}) =>
      \A i \in 1..Len(loc[s].read) :
        loc[s].upstream[loc[s].read[i].pi] = "succeeded" =>
          Row(loc[s].read[i].id).status = "succeeded"

\* a register request with a username and a password, from a session that is
\* not logged in
OpenRegister(r) ==
  /\ r.kind = "register"
  /\ r.username \notin {Undefined, ""} /\ r.password \notin {Undefined, ""}
  /\ sessionUser[r.sid] = 0

\* C10: requests handled one after the other; a register request with username
\* and password from a session that is not logged in, whose store statements
\* do not fail: with no account in the table it is answered 200 and the table
\* then holds that one account; with an account in the table it is answered
\* 401; and with an account in the table no step of it adds or changes one.
C10_Bootstrap ==
  [][\A s \in Slots :
       (Acts(s) /\ OpenRegister(req'[s])) =>
         /\ (pc'[s] = "done" /\ loc'[s].caught = {}) =>
              IF Len(admin_users) = 0
                THEN /\ resp'[s].status = 200
                     /\ Len(admin_users') = 1
                     /\ admin_users'[1].username = req'[s].username
                     /\ admin_users'[1].id = 1
                ELSE resp'[s].status = 401
         /\ Len(admin_users) > 0 => admin_users' = admin_users
         /\ resp'[s].status = 200 => Len(admin_users) = 0]_vars

\* C10 witness: the first account was registered, and a later register request
\* for another name from a session not logged in was answered 401
C10_Witness ==
  \E s \in Slots :
    /\ OpenRegister(req[s]) /\ pc[s] = "done" /\ resp[s].status = 401
    /\ Len(admin_users) = 1
    /\ admin_users[1].username # req[s].username

\* C11: whatever the interleaving of register requests, a request that carries
\* no logged-in session inserts an account only when the table holds none.
C11_SingleBootstrap ==
  [][\A s \in DOMAIN pc :
       (pc[s] = "reg_insert" /\ ~loc[s].authed /\ admin_users' # admin_users) =>
         Len(admin_users) = 0]_vars

\* a request to one of the endpoints behind isAuthenticated arrives in slot s
Arrives(s, kinds) == Idle(s) /\ Acts(s) /\ req'[s].kind \in kinds

\* C12: a list or add-user request on a session that is not logged in (never
\* logged in, or logged out) ends at once with 401, looks nothing up and
\* leaves donations and accounts alone; on a logged-in session it is admitted
\* (no 401); a login answered 200 leaves its session logged in and a logout
\* answered 200 leaves it logged out; and every step that looks an intent up,
\* writes a status or inserts an added user is one of an admitted request.
C12_FollowsSession ==
  [][\A s \in Slots :
       /\ (Arrives(s, {"list", "users"}) /\ sessionUser[req'[s].sid] = 0) =>
            /\ pc'[s] = "done"
            /\ resp'[s] = Reply(401, "Unauthorized")
            /\ loc'[s].reported = <<>> /\ loc'[s].read = <<>>
            /\ donations' = donations
            /\ admin_users' = admin_users
       /\ (Arrives(s, {"list", "users"}) /\ sessionUser[req'[s].sid] # 0) =>
            /\ resp'[s].status # 401
            /\ req'[s].kind = "list" => pc'[s] = "list_read"
            /\ (req'[s].kind = "users" /\ resp'[s].status = 0) => pc'[s] = "users_insert"
       /\ (pc[s] = "login_get" /\ resp'[s].status = 200) => sessionUser'[req[s].sid] # 0
       /\ (pc[s] = "logout_destroy" /\ resp'[s].status = 200) => sessionUser'[req[s].sid] = 0
       /\ (Acts(s) /\ pc[s] \in {"list_read", "list_retrieve", "list_update", "users_insert"}) =>
            loc[s].authed
       /\ (Acts(s) /\ req'[s].kind \in {"list", "users"} /\ ~loc'[s].authed) =>
            (donations' = donations /\ admin_users' = admin_users)]_vars

\* C12 witness: after a login and a list pass that stored a status, the session
\* was logged out and its next list request was answered 401, the row as the
\* pass left it
C12_Witness ==
  \E s \in Slots :
    /\ req[s].kind = "list" /\ pc[s] = "done"
    /\ resp[s] = Reply(401, "Unauthorized")
    /\ Len(admin_users) = 1
    /\ \A c \in Sessions : sessionUser[c] = 0
    /\ donations[1].status = "requires_payment_method"
    /\ intents[1] = "succeeded"

\* C13: a login with username and password that fails, whether it names an
\* account with another password or no account, is answered with one and the
\* same response, 401 and the generic invalid-credentials body, and leaves
\* every session as it was.
C13_NoEnumeration ==
  [][\A s \in Slots :
       (pc[s] = "login_get" /\ pc'[s] = "done" /\ loc'[s].caught = {}
          /\ resp'[s].status # 200) =>
         /\ resp'[s] = Reply(401, "Invalid credentials.")
         /\ sessionUser' = sessionUser
         /\ \/ UsersNamed(admin_users, req[s].username) = {}
            \/ \E i \in UsersNamed(admin_users, req[s].username) :
                 admin_users[i].password # Hash(req[s].password)]_vars

\* C13 witness: a login that names the stored account with a wrong password
\* was answered as one naming no account is, and its session is not logged in
C13_Witness ==
  \E s \in Slots :
    /\ req[s].kind = "login" /\ pc[s] = "done" /\ loc[s].caught = {}
    /\ UsersNamed(admin_users, req[s].username) # {}
    /\ UsersNamed(admin_users, "root") = {}
    /\ resp[s] = NoSuchUser
    /\ sessionUser[req[s].sid] = 0

\* C14: the amount of a stored donation is the request's amount in cents
\* rounded half up: for an amount of milli thousandths of a dollar, the integer
\* part of milli / 10 + 1/2.
C14_RoundHalfUp ==
  [][\A s \in Slots :
       (pc[s] = "create_insert" /\ Len(donations') > Len(donations)
          /\ req[s].amount.milli > 0) =>
         donations'[Len(donations')].amount = (req[s].amount.milli + 5) \div 10]_vars

\* C15: a webhook request that became an event of a type other than
\* payment_intent.succeeded ends at once, acknowledged with 200 {received:
\* true}, and no row is changed.
C15_OtherTypesIgnored ==
  [][\A s \in Slots :
       (Acts(s) /\ HasEvent(req'[s]) /\ req'[s].type # "payment_intent.succeeded") =>
         /\ pc'[s] = "done"
         /\ resp'[s] = Reply(200, "received")
         /\ donations' = donations]_vars

\* C15 witness: a payment_failed event for the intent of a pending row was
\* acknowledged and the row is pending still
C15_Witness ==
  \E s \in Slots :
    /\ HasEvent(req[s]) /\ req[s].type = "payment_intent.payment_failed"
    /\ pc[s] = "done" /\ resp[s] = Reply(200, "received")
    /\ \E i \in Matching(req[s]) : donations[i].status = "pending"

\* C16: in every step every stored row stays in the table with its id,
\* amount, email and intent id; a status changes only in the step that runs a
\* webhook's UPDATE or a list pass's UPDATE; and a step of a
\* create-payment-intent request changes no row that exists.
C16_RowsKept ==
  [][/\ Len(donations') >= Len(donations)
     /\ \A i \in 1..Len(donations) :
          [donations'[i] EXCEPT !.status = ""] = [donations[i] EXCEPT !.status = ""]
     /\ (\E i \in 1..Len(donations) : donations'[i].status # donations[i].status) =>
          \E s \in Slots : Acts(s) /\ pc[s] \in {"wh_update", "list_update"}
     /\ \A s \in Slots :
          (Acts(s) /\ req'[s].kind = "create") =>
            SubSeq(donations', 1, Len(donations)) = donations]_vars

\* C16 witness: a second donation was created after a list pass had stored
\* canceled for the first, which holds what it was created with but the status
C16_Witness ==
  \E s \in Slots :
    /\ req[s].kind = "create" /\ pc[s] = "done" /\ resp[s].status = 200
    /\ Len(donations) = 2
    /\ donations[1] = [NewDonation(<<>>, 1000, "donor@example.org", 1) EXCEPT
                         !.status = "canceled"]
    /\ donations[2].status = "pending"

\* C17: with a list pass and a webhook in flight together, every UPDATE that
\* runs sets its row to the writer's value whatever status the row holds then
\* (the pass writes the status it retrieved, the webhook writes succeeded), and
\* no other step changes a row: the stored status is that of the last UPDATE.
C17_LastWriteWins ==
  [][/\ \A s \in DOMAIN pc :
          /\ (pc[s] = "list_update" /\ Acts(s) /\ loc'[s].caught = loc[s].caught) =>
               \A i \in 1..Len(donations') :
                 donations'[i].id = loc[s].list[loc[s].idx].id =>
                   donations'[i].status = loc[s].status
          /\ (pc[s] = "wh_update" /\ Acts(s) /\ loc'[s].caught = {}) =>
               \A i \in 1..Len(donations') :
                 donations'[i].pi = req[s].id => donations'[i].status = "succeeded"
     /\ donations' # donations =>
          \E s \in DOMAIN pc :
            /\ Acts(s) /\ pc[s] \in {"list_update", "wh_update"}
            /\ loc'[s].caught = loc[s].caught]_vars

\* C17 witness: a pass read the row pending and retrieved a status that is not
\* succeeded, a succeeded webhook for the row was applied meanwhile, both have
\* finished without error, and the row holds the status the pass retrieved
C17_Witness ==
  \E s, w \in DOMAIN pc :
    /\ ListDone(s) /\ loc[s].caught = {}
    /\ loc[s].read[1].status = "pending"
    /\ loc[s].reported[1] \in PStatus \ {"succeeded"}
    /\ req[w].kind = "webhook" /\ req[w].type = "payment_intent.succeeded"
    /\ req[w].id = donations[1].pi
    /\ pc[w] = "done" /\ loc[w].caught = {} /\ resp[w] = Reply(200, "received")
    /\ donations[1].status = loc[s].reported[1]
    /\ donations[1].status # "succeeded"

\* intent k has no row and no request in flight that is about to insert one
Orphan(k) ==
  /\ k \in 1..Len(intents)
  /\ \A i \in 1..Len(donations) : donations[i].pi # k
  /\ \A s \in DOMAIN pc : ~(pc[s] = "create_insert" /\ loc[s].pi = k)

\* C18: when the INSERT fails after the intent was created, the request ends
\* with 500 and no client secret, no row is written and the intent stays at
\* the processor as it is; and an intent that is left without a row stays
\* without one in every later step, a succeeded webhook for it included.
C18_OrphanStays ==
  [][/\ \A s \in Slots :
          (pc[s] = "create_insert" /\ Acts(s) /\ loc'[s].caught # {}) =>
            /\ pc'[s] = "done"
            /\ resp'[s].status = 500 /\ resp'[s].clientSecret = 0
            /\ donations' = donations
            /\ intents' = intents
            /\ Orphan(loc[s].pi)'
     /\ \A k \in 1..Len(intents) : Orphan(k) => Orphan(k)']_vars

\* C18 witness: the donor paid an intent whose INSERT had failed and the
\* succeeded webhook for it was applied: it has no row, another intent has one
C18_Witness ==
  \E s \in Slots :
    /\ HasEvent(req[s]) /\ req[s].type = "payment_intent.succeeded"
    /\ pc[s] = "done" /\ loc[s].caught = {} /\ resp[s] = Reply(200, "received")
    /\ Orphan(req[s].id) /\ intents[req[s].id] = "succeeded"
    /\ Len(donations) = 1 /\ donations[1].status = "pending"

\* C19: an account creation, by register or by add-user, whose username is
\* that of a stored account leaves the table as it is and is answered with a
\* username-taken outcome, one that differs from the answer to a failure of
\* the store; and no two stored accounts share a username.
C19_UsernameTaken ==
  [][/\ \A s \in Slots :
          (pc[s] \in {"reg_insert", "users_insert"} /\ Acts(s)
             /\ UsersNamed(admin_users, req[s].username) # {}) =>
            /\ admin_users' = admin_users
            /\ resp'[s] # InternalError
     /\ \A i, j \in 1..Len(admin_users') :
          admin_users'[i].username = admin_users'[j].username => i = j]_vars

\* C20: a webhook request that was acknowledged with 200 {received: true} for
\* a payment_intent.succeeded event naming a stored row, and whose UPDATE has
\* been through, has left that row succeeded.
C20_AckMeansApplied ==
  \A s \in Slots :
    (HasEvent(req[s]) /\ req[s].type = "payment_intent.succeeded"
       /\ pc[s] = "done" /\ resp[s] = Reply(200, "received")) =>
      \A i \in Matching(req[s]) : donations[i].status = "succeeded"

\* C21: a click handler sends its create-payment-intent request only when no
\* other submission has sent one and is still under way (its fetch or its card
\* confirmation not settled): between a click and the end of its submission at
\* most one request is sent.
C21_OneRequest ==
  [][\A h \in Racers :
       (page.at[h] = "tick" /\ page'.at[h] = "fetch") =>
         \A g \in Racers \ {h} : page.at[g] \notin {"fetch", "confirm"}]_vars

====
